---- MODULE Spec2Model ----
(***************************************************************************)
(* Model of ReactorSystem (system_sim_embodiment_b.py and                  *)
(* system_sim_embodiment_b_MassProduction.py): the per-time-step state     *)
(* update step(t) of one catalytic particle growing a filament.            *)
(*                                                                         *)
(* The program computes in IEEE doubles; the model computes the same       *)
(* expressions, in the same order, in fixed point.  Every quantity is an   *)
(* integer count of the unit below, every quotient is rounded down:        *)
(*                                                                         *)
(*   time t                       0.5 ms        (5.0 s = 10000)            *)
(*   DT                           1 us          (0.0005 s = 500)           *)
(*   pos, cnt_length, R_TANK,                                              *)
(*   R_CNT, max_length_record     1 nm                                     *)
(*   R_CORE, r_vapor              10 nm                                    *)
(*   velocities, noise, z_error   1e-6 m/s                                 *)
(*   pid_err_sum                  5e-10 m       (0.5 m = 10^9)             *)
(*   d_err                        1e-6 m/s per 0.5 ms                      *)
(*   adj                          2 power units per second                 *)
(*   power_input                  1e-3 power units                         *)
(*   thermal_energy               1e-7 energy units                        *)
(*   volumes of core and vapor    1e-20 m^3                                *)
(*   volume of the filament       1e-27 m^3                                *)
(*   masses                       1e-18 kg                                 *)
(*   forces, tension, adhesion    1e-14 N                                  *)
(*   drag coefficients gamma      1e-11 N s/m                              *)
(*   VISCOSITY                    1e-4 Pa s                                *)
(*   RPM_FLUID, RPM_MAGNET        0.01 rpm                                 *)
(*   G                            0.01 m/s^2                               *)
(*   GROWTH_RATE                  1 nm/s                                   *)
(*   MAGNET_STIFFNESS             1e-5 N/m                                 *)
(*   pi                           355/113                                  *)
(***************************************************************************)
EXTENDS Integers, Sequences, FiniteSets, TLC

VARIABLES
  cfg,    \* the module constants of the profile that is running
  sim,    \* the fields of the ReactorSystem object (pos is a reference)
  heap,   \* the ndarray objects: reference -> contents
  res,    \* the tuple returned by the latest call of step
  loc,    \* the arguments and local variables of the latest call of step
  caller, \* what the caller holds: the first tuple returned, a copy of its
          \* position taken on return, the number of break flags seen, and
          \* how it schedules its calls
  twin,   \* a second engine, stepped with the same arguments (profile comparison)
  hist,   \* history of the run: the largest value self.cnt_length has held,
          \* the calls since construction or the latest break (calm), and
          \* that number as it was before the latest call (gap)
  steps   \* number of calls of step so far

vars == <<cfg, sim, heap, res, loc, caller, twin, hist, steps>>

----------------------------------------------------------------------------
(* Bounds of the model.                                                    *)

\* calls made along the driver's schedule (t = i*DT) before arbitrary calls
WarmSteps == 1000
\* calls with arbitrary arguments after the driver's calls
BurstSteps == 3
\* calls with arbitrary arguments in a run under a degenerate configuration
DegenerateSteps == 3
\* calls with arbitrary arguments made directly after construction
FreshSteps == 5
\* calls with arbitrary arguments after the driver's calls, long enough for a
\* break and the regrowth that follows it
RegrowSteps == 6

----------------------------------------------------------------------------
(* Fixed-point arithmetic.                                                 *)

Abs(x) == IF x < 0 THEN -x ELSE x

Max(a, b) == IF a >= b THEN a ELSE b

\* floor(a*b/c) for c > 0 and 0 <= b with b*c < 2^31, without forming a*b
MulDiv(a, b, c) == (a \div c) * b + ((a % c) * b) \div c

\* a*b/c for a signed factor b
MulDivS(a, b, c) == IF b >= 0 THEN MulDiv(a, b, c) ELSE -MulDiv(a, -b, c)

RECURSIVE SqrtSearch(_, _, _)
SqrtSearch(n, lo, hi) ==
  IF hi - lo <= 1 THEN lo
  ELSE LET m == (lo + hi) \div 2
       IN IF m * m <= n THEN SqrtSearch(n, m, hi) ELSE SqrtSearch(n, lo, m)

\* floor(sqrt(n)) for 0 <= n < 2^31
ISqrt(n) == SqrtSearch(n, 0, 46341)

\* np.linalg.norm / np.sqrt of a sum of squares: the components are scaled
\* down to at most 20000 so that the squares fit, relative error < 1e-4
Norm3(a, b, c) ==
  LET m == Max(Abs(a), Max(Abs(b), Abs(c)))
      k == m \div 20000 + 1
      ak == a \div k
      bk == b \div k
      ck == c \div k
  IN ISqrt(ak * ak + bk * bk + ck * ck) * k

\* floor(r^3 / 10^4) and ceiling(r^3 / 10^4) for 0 <= r < 32768
CubeDiv(r) ==
  LET sq == r * r IN (sq \div 10000) * r + ((sq % 10000) * r) \div 10000

CubeDivCeil(r) ==
  LET sq == r * r IN (sq \div 10000) * r + ((sq % 10000) * r + 9999) \div 10000

RECURSIVE CbrtSearch(_, _, _)
CbrtSearch(e, lo, hi) ==
  IF hi - lo <= 1 THEN lo
  ELSE LET m == (lo + hi) \div 2
       IN IF CubeDivCeil(m) <= e THEN CbrtSearch(e, m, hi) ELSE CbrtSearch(e, lo, m)

\* floor(cbrt(10^4 * e)) for e >= 0
ICbrt(e) == CbrtSearch(e, 0, 32768)

RECURSIVE Log2Floor(_)
Log2Floor(n) == IF n <= 1 THEN 0 ELSE 1 + Log2Floor(n \div 2)

RECURSIVE Pow2(_)
Pow2(k) == IF k = 0 THEN 1 ELSE 2 * Pow2(k - 1)

\* np.log: 10^4 * ln(n) for an integer 1 <= n <= 200000, as k*ln 2 + 2*atanh(y)
\* with n = 2^k * m, 1 <= m < 2, y = (m-1)/(m+1), series to y^7
Ln(n) ==
  LET k  == Log2Floor(n)
      p  == Pow2(k)
      y  == ((n - p) * 10000) \div (n + p)
      y2 == (y * y) \div 10000
      y3 == (y2 * y) \div 10000
      y5 == (y3 * y2) \div 10000
      y7 == (y5 * y2) \div 10000
  IN k * 6931 + 2 * (y + y3 \div 3 + y5 \div 5 + y7 \div 7)

\* 10^4 * cos(x) and 10^4 * sin(x) for x in 1e-4 rad, 0 <= x <= pi/2 (Taylor)
CosQ(x) ==
  LET x2 == MulDiv(x, x, 10000)
      x4 == MulDiv(x2, x2, 10000)
      x6 == MulDiv(x4, x2, 10000)
      x8 == MulDiv(x6, x2, 10000)
  IN 10000 - x2 \div 2 + x4 \div 24 - x6 \div 720 + x8 \div 40320

SinQ(x) ==
  LET x2 == MulDiv(x, x, 10000)
      x3 == MulDiv(x2, x, 10000)
      x5 == MulDiv(x3, x2, 10000)
      x7 == MulDiv(x5, x2, 10000)
      x9 == MulDiv(x7, x2, 10000)
  IN x - x3 \div 6 + x5 \div 120 - x7 \div 5040 + x9 \div 362880

\* np.cos, np.sin of an angle given as p/12000000 of a turn: <<10^4 cos, 10^4 sin>>
CosSin(p) ==
  LET q == p \div 3000000
      x == (((p % 3000000) \div 100) * 15708) \div 30000
      c == CosQ(x)
      s == SinQ(x)
  IN CASE q = 0 -> <<c, s>>
       [] q = 1 -> <<-s, c>>
       [] q = 2 -> <<-c, -s>>
       [] OTHER -> <<s, -c>>

RECURSIVE UnitFraction(_, _, _, _)
\* floor(a * 10^n / r) for 0 <= a <= r, digit by digit (acc starts at 0)
UnitFraction(a, r, n, acc) ==
  IF n = 0 THEN acc
  ELSE UnitFraction((a * 10) % r, r, n - 1, acc * 10 + (a * 10) \div r)

\* 10^4 * a / r for |a| <= r (or just above): a component of a unit vector
UnitComponent(a, r) ==
  IF a >= 0 THEN UnitFraction(a, r, 4, 0) ELSE -UnitFraction(-a, r, 4, 0)

----------------------------------------------------------------------------
(* Configuration: the module constants of the two source files.            *)

Precision ==
  [ G |-> 981, RHO_FLUID |-> 750, RHO_PARTICLE |-> 8900, VISCOSITY |-> 4,
    R_TANK |-> 50000000, LIFT_SPEED |-> 400, RPM_FLUID |-> 10000,
    RPM_MAGNET |-> 9995, MAGNET_STIFFNESS |-> 2, R_CORE |-> 300, R_CNT |-> 20,
    GROWTH_RATE |-> 80000, ADHESION_LIMIT |-> 40000000, DT |-> 500,
    TOTAL_TIME |-> 12500 ]

\* a mass-production profile whose growth rate drifted from the other's
RobustDrifted ==
  [ Precision EXCEPT !.VISCOSITY = 6, !.RPM_MAGNET = 9980,
                     !.ADHESION_LIMIT = 30000000, !.TOTAL_TIME = 4200,
                     !.GROWTH_RATE = 60000 ]

Robust ==
  [ G |-> 981, RHO_FLUID |-> 750, RHO_PARTICLE |-> 8900, VISCOSITY |-> 6,
    R_TANK |-> 50000000, LIFT_SPEED |-> 400, RPM_FLUID |-> 10000,
    RPM_MAGNET |-> 9980, MAGNET_STIFFNESS |-> 2, R_CORE |-> 300, R_CNT |-> 20,
    GROWTH_RATE |-> 80000, ADHESION_LIMIT |-> 30000000, DT |-> 500,
    TOTAL_TIME |-> 4200 ]

\* constants written as literals inside __init__ and step, equal in both files
SEED_LENGTH == 1
RAMP_TIME == 40000
STABILIZATION_TIME == 10000
ERR_SUM_LIMIT == 1000000000
POWER_MAX == 150000
CNT_DENSITY == 2200

----------------------------------------------------------------------------
(* The sections of step(t), in the order of the source.                    *)

\* 1. Soft-start: LIFT_SPEED * (t / ramp_time) below ramp_time, else LIFT_SPEED
TargetVel(c, t) ==
  IF t < RAMP_TIME THEN (c.LIFT_SPEED * t) \div RAMP_TIME ELSE c.LIFT_SPEED

\* the growth of a whole millisecond added on every step of half a millisecond
GrowPerMillisecond(c, cnt_length) == cnt_length + c.GROWTH_RATE \div 1000

\* 2. self.cnt_length += GROWTH_RATE * DT
Grow(c, cnt_length) == cnt_length + (c.GROWTH_RATE * c.DT) \div 1000000

\* the record overwritten on every step instead of only when exceeded
MaxLengthRecordOverwrite(cnt_length, max_length_record) == cnt_length

\* if self.cnt_length > self.max_length_record: self.max_length_record = ...
MaxLengthRecord(cnt_length, max_length_record) ==
  IF cnt_length > max_length_record THEN cnt_length ELSE max_length_record

\* np.clip(x, lo, hi)
Clip(x, lo, hi) == IF x < lo THEN lo ELSE IF x > hi THEN hi ELSE x

\* the integral accumulated without the anti-windup clamp
IntegralUnclamped(err_sum) == err_sum

\* self.pid_err_sum = np.clip(self.pid_err_sum, -0.5, 0.5)
ClampIntegral(err_sum) == Clip(err_sum, -ERR_SUM_LIMIT, ERR_SUM_LIMIT)

\* adj = kp*z_error + ki*pid_err_sum + kd*d_err, kp, ki, kd = 80000, 5000, 500
PidAdjust(z_error, err_sum, d_err) ==
  z_error \div 25 + err_sum \div 800000 + d_err \div 2

\* the energy balance with input and loss exchanged, and no clamp at zero
ThermalEnergyDrain(c, thermal_energy, power_input) ==
  LET cooling_loss == 2 * thermal_energy
      d_energy == MulDiv(cooling_loss - power_input * 10000, c.DT, 1000000)
  IN thermal_energy + d_energy

\* 4. d_energy = (power_input - thermal_energy*2.0) * DT;
\*    thermal_energy = max(0, thermal_energy + d_energy)
ThermalEnergy(c, thermal_energy, power_input) ==
  LET cooling_loss == 2 * thermal_energy
      d_energy == MulDiv(power_input * 10000 - cooling_loss, c.DT, 1000000)
  IN Max(0, thermal_energy + d_energy)

\* r_vapor = (thermal_energy * k_vol)**(1/3), k_vol = 1.0e-13
VaporRadius(thermal_energy) == ICbrt(thermal_energy)

\* (4/3) * pi * r**3 in 1e-20 m^3 for r in 10 nm
SphereVolume(r) == MulDiv(4 * CubeDiv(r), 355, 339)

\* total_mass = vol_core*RHO_PARTICLE + pi*R_CNT**2*cnt_length*2200.0
TotalMass(c, cnt_length) ==
  LET vol_core == SphereVolume(c.R_CORE)
      mass_particle == MulDiv(vol_core, c.RHO_PARTICLE, 100)
      vol_cnt == MulDiv(cnt_length, 355 * c.R_CNT * c.R_CNT, 113)
      mass_cnt == MulDiv(vol_cnt, CNT_DENSITY \div 100, 10000000)
  IN mass_particle + mass_cnt

\* f_z_net = vol_total*RHO_FLUID*G - total_mass*G
NetBuoyancy(c, r_vapor, total_mass) ==
  LET vol_total == SphereVolume(c.R_CORE) + SphereVolume(r_vapor)
      f_buoy == MulDiv(MulDiv(vol_total, c.RHO_FLUID, 100), c.G, 1000000)
      f_grav == MulDiv(total_mass, c.G, 1000000)
  IN f_buoy - f_grav

\* get_magnetic_target: R_TANK * (cos, sin)(omega_mag * t), omega_mag * t as
\* RPM_MAGNET * t / 12000000 of a turn; the z of the target is pos[2]
MagneticTarget(c, t, pos) ==
  LET cs == CosSin((c.RPM_MAGNET * t) % 12000000)
  IN <<MulDivS(c.R_TANK, cs[1], 10000), MulDivS(c.R_TANK, cs[2], 10000), pos[3]>>

\* omega_fluid = (RPM_FLUID / 60.0) * 2 * pi, in 1e-3 rad/s
OmegaFluid(c) == (c.RPM_FLUID * 7100) \div 6780

\* one component of f_cent = total_mass * omega_fluid**2 * pos
Centrifugal(c, total_mass, x) ==
  LET om == OmegaFluid(c)
      om2 == (om * om) \div 10000
  IN ((total_mass \div 100) * (MulDiv(x, om2, 100000) \div 1000)) \div 100000

\* the Stokes drag of the vapor shell alone, the core radius left out
GammaSphereShellOnly(c, r_vapor) ==
  (6 * 355 * c.VISCOSITY * r_vapor) \div 1130

\* 6. gamma_sphere = 6 * pi * VISCOSITY * (R_CORE + r_vapor)
GammaSphere(c, r_vapor) ==
  (6 * 355 * c.VISCOSITY * (c.R_CORE + r_vapor)) \div 1130

\* eps = 2*cnt_length/R_CNT; denom = np.log(eps) - 0.5, in units of 1e-4
SlenderDenom(c, cnt_length) == Ln(2 * cnt_length) - Ln(c.R_CNT) - 5000

\* the slender-body branch: 2*pi*VISCOSITY*cnt_length / (log(2*cnt_length/R_CNT) - 0.5)
SlenderDrag(c, cnt_length) ==
  LET denom == SlenderDenom(c, cnt_length)
  IN MulDiv(710 * c.VISCOSITY * cnt_length, 10, 113 * (denom \div 10))

\* the slender-body drag applied to a filament of any length
GammaCntUngated(c, cnt_length) == SlenderDrag(c, cnt_length)

\* if self.cnt_length > 10 * R_CNT: ... else: gamma_cnt = 0
GammaCnt(c, cnt_length) ==
  IF cnt_length > 10 * c.R_CNT THEN SlenderDrag(c, cnt_length) ELSE 0

\* get_fluid_velocity_field(pos)
FluidVelocity(c, pos) ==
  LET r == Norm3(pos[1], pos[2], 0)
      v_tan_mag == MulDiv(r, OmegaFluid(c) \div 8, 125000)
  IN IF r < 1000 THEN <<0, 0, c.LIFT_SPEED>>
     ELSE << MulDivS(v_tan_mag, UnitComponent(-pos[2], r), 10000),
             MulDivS(v_tan_mag, UnitComponent(pos[1], r), 10000),
             c.LIFT_SPEED >>

\* the stabilization window closed at t = 5.0 instead of after it
BreakConditionInclusive(c, f_tension, t) ==
  f_tension > c.ADHESION_LIMIT /\ t >= STABILIZATION_TIME

\* the tension test taken alone, without the stabilization window
BreakConditionTensionOnly(c, f_tension, t) == f_tension > c.ADHESION_LIMIT

\* 7. if f_tension > ADHESION_LIMIT and t > 5.0
BreakCondition(c, f_tension, t) ==
  f_tension > c.ADHESION_LIMIT /\ t > STABILIZATION_TIME

\* a snap that resets the length to zero instead of the seed
SnapLengthZero(broken, cnt_length) == IF broken THEN 0 ELSE cnt_length

\* self.cnt_length = 1e-9 on a break
SnapLength(broken, cnt_length) == IF broken THEN SEED_LENGTH ELSE cnt_length

\* self.break_counter += 1 on a break
CountBreak(broken, break_counter) ==
  IF broken THEN break_counter + 1 ELSE break_counter

\* the value of a division by a zero drag: inf, -inf or nan
NonFinite == "inf or nan"

\* v_drift = f_external / gamma_total for one component: no test of
\* gamma_total precedes the division, and NumPy divides by zero with a
\* warning, not an exception
DriftVelocity(f, gamma_total) ==
  IF gamma_total = 0 THEN NonFinite ELSE MulDiv(f, 1000, gamma_total)

\* sections 1 to 3 of step: soft start, growth and the PID loop
Control(c, s, t, noise) ==
  LET current_target_vel == TargetVel(c, t)
      cnt_length == Grow(c, s.cnt_length)
      measured_vel == s.current_z_vel_real + noise
      z_error == current_target_vel - measured_vel
      err_sum_raw == s.pid_err_sum + MulDiv(z_error, c.DT, 500)
      pid_err_sum == ClampIntegral(err_sum_raw)
      d_err == MulDiv(z_error - s.pid_last_err, 500, c.DT)
      adj == PidAdjust(z_error, pid_err_sum, d_err)
      power_raw == s.power_input + MulDiv(adj, c.DT, 500)
  IN [ current_target_vel |-> current_target_vel,
       cnt_length |-> cnt_length,
       max_length_record |-> MaxLengthRecord(cnt_length, s.max_length_record),
       z_error |-> z_error,
       err_sum_raw |-> err_sum_raw,
       pid_err_sum |-> pid_err_sum,
       power_raw |-> power_raw,
       power_input |-> Clip(power_raw, 0, POWER_MAX) ]

\* section 4 of step: thermal energy and vapor radius
Thermodynamics(c, s, power_input) ==
  LET thermal_energy == ThermalEnergy(c, s.thermal_energy, power_input)
  IN [ thermal_energy |-> thermal_energy, r_vapor |-> VaporRadius(thermal_energy) ]

\* sections 5 and 6 of step up to gamma_total: the external force and the drag
Forces(c, pos, t, cnt_length, r_vapor) ==
  LET total_mass == TotalMass(c, cnt_length)
      f_z_net == NetBuoyancy(c, r_vapor, total_mass)
      target_pos == MagneticTarget(c, t, pos)
      f_mag_x == (target_pos[1] - pos[1]) * c.MAGNET_STIFFNESS
      f_mag_y == (target_pos[2] - pos[2]) * c.MAGNET_STIFFNESS
      gamma_sphere == GammaSphere(c, r_vapor)
      gamma_cnt == GammaCnt(c, cnt_length)
  IN [ f_external |-> << f_mag_x + Centrifugal(c, total_mass, pos[1]),
                         f_mag_y + Centrifugal(c, total_mass, pos[2]),
                         f_z_net >>,
       gamma_sphere |-> gamma_sphere,
       gamma_cnt |-> gamma_cnt,
       gamma_total |-> gamma_sphere + gamma_cnt ]

\* section 6 of step from v_drift on, and the tension of section 7
Hydrodynamics(c, pos, f_external, gamma_cnt, gamma_total) ==
  LET finite == gamma_total # 0
      v_drift_x == DriftVelocity(f_external[1], gamma_total)
      v_drift_y == DriftVelocity(f_external[2], gamma_total)
      v_drift_z == DriftVelocity(f_external[3], gamma_total)
      v_drift_mag == IF finite THEN Norm3(v_drift_x, v_drift_y, v_drift_z)
                     ELSE NonFinite
      v_fluid == FluidVelocity(c, pos)
      v_total_x == v_fluid[1] + v_drift_x
      v_total_y == v_fluid[2] + v_drift_y
      v_total_z == v_fluid[3] + v_drift_z
  IN [ finite |-> finite,
       v_drift_mag |-> v_drift_mag,
       \* self.pos += v_total * DT
       pos |-> IF finite
                 THEN << pos[1] + MulDiv(v_total_x, c.DT, 1000),
                         pos[2] + MulDiv(v_total_y, c.DT, 1000),
                         pos[3] + MulDiv(v_total_z, c.DT, 1000) >>
                 ELSE <<NonFinite, NonFinite, NonFinite>>,
       current_z_vel_real |-> IF finite THEN v_total_z ELSE NonFinite,
       f_tension |-> IF finite THEN MulDiv(v_drift_mag, gamma_cnt, 1000)
                     ELSE NonFinite ]

\* section 7 of step and its return: the new fields of the object, the new
\* contents of the array self.pos, the returned tuple and the local variables
TearOff(c, s, t, noise, ctl, th, fo, hy) ==
  LET \* a comparison with nan is false
      broken == hy.finite /\ BreakCondition(c, hy.f_tension, t)
      end_length == SnapLength(broken, ctl.cnt_length)
  IN [ sim |-> [ pos |-> s.pos,
                 cnt_length |-> end_length,
                 break_counter |-> CountBreak(broken, s.break_counter),
                 max_length_record |-> ctl.max_length_record,
                 thermal_energy |-> th.thermal_energy,
                 r_vapor |-> th.r_vapor,
                 power_input |-> ctl.power_input,
                 pid_err_sum |-> ctl.pid_err_sum,
                 pid_last_err |-> ctl.z_error,
                 current_z_vel_real |-> hy.current_z_vel_real ],
       pos |-> hy.pos,
       res |-> [ pos |-> s.pos, length |-> end_length,
                 power |-> ctl.power_input,
                 target_vel |-> ctl.current_target_vel,
                 r_vapor |-> th.r_vapor,
                 tension |-> hy.f_tension, broken |-> broken ],
       loc |-> [ t |-> t, noise |-> noise,
                 length_before |-> s.cnt_length,
                 max_before |-> s.max_length_record,
                 breaks_before |-> s.break_counter,
                 cnt_length |-> ctl.cnt_length,
                 err_sum_raw |-> ctl.err_sum_raw,
                 power_raw |-> ctl.power_raw,
                 gamma_sphere |-> fo.gamma_sphere,
                 gamma_cnt |-> fo.gamma_cnt,
                 gamma_total |-> fo.gamma_total,
                 v_drift_mag |-> hy.v_drift_mag,
                 finite |-> hy.finite,
                 outcome |-> "returned" ] ]

AfterForces(c, s, pos, t, noise, ctl, th, fo) ==
  TearOff(c, s, t, noise, ctl, th, fo,
          Hydrodynamics(c, pos, fo.f_external, fo.gamma_cnt, fo.gamma_total))

AfterThermodynamics(c, s, pos, t, noise, ctl, th) ==
  AfterForces(c, s, pos, t, noise, ctl, th,
              Forces(c, pos, t, ctl.cnt_length, th.r_vapor))

AfterControl(c, s, pos, t, noise, ctl) ==
  AfterThermodynamics(c, s, pos, t, noise, ctl,
                      Thermodynamics(c, s, ctl.power_input))

\* step(t) with the sample `noise` drawn by np.random.normal, section after
\* section in the order of the source
StepFn(c, s, pos, t, noise) ==
  AfterControl(c, s, pos, t, noise, Control(c, s, t, noise))

----------------------------------------------------------------------------
(* The object after __init__, and the callers of step.                     *)

\* the reference held by self.pos: np.array([R_TANK, 0.0, 0.0])
POS_REF == 1

InitSim ==
  [ pos |-> POS_REF, cnt_length |-> SEED_LENGTH, break_counter |-> 0,
    max_length_record |-> 0, thermal_energy |-> 0, r_vapor |-> 0,
    power_input |-> 0, pid_err_sum |-> 0, pid_last_err |-> 0,
    current_z_vel_real |-> 0 ]

InitPos(c) == <<c.R_TANK, 0, 0>>

NoResult ==
  [ pos |-> POS_REF, length |-> 0, power |-> 0, target_vel |-> 0,
    r_vapor |-> 0, tension |-> 0, broken |-> FALSE ]

NoLocals ==
  [ t |-> 0, noise |-> 0, length_before |-> 0, max_before |-> 0,
    breaks_before |-> 0, cnt_length |-> 0, err_sum_raw |-> 0, power_raw |-> 0,
    gamma_sphere |-> 0, gamma_cnt |-> 0, gamma_total |-> 0, v_drift_mag |-> 0,
    finite |-> TRUE, outcome |-> "none" ]

Engine(c) == [ cfg |-> c, sim |-> InitSim, pos |-> InitPos(c), res |-> NoResult ]

\* schedule: "driver" for the loop of run_simulation, "direct" for a caller
\* that invokes step itself from construction on
InitAs(c, other, schedule) ==
  /\ cfg = c
  /\ sim = InitSim
  /\ heap = [ref \in {POS_REF} |-> InitPos(c)]
  /\ res = NoResult
  /\ loc = NoLocals
  /\ caller = [ first |-> NoResult, first_pos |-> InitPos(c), breaks_seen |-> 0,
                schedule |-> schedule ]
  /\ twin = Engine(other)
  /\ hist = [peak |-> InitSim.cnt_length, calm |-> 0, gap |-> 0]
  /\ steps = 0

InitWith(c, other) == InitAs(c, other, "driver")

Init == \E c \in {Precision, Robust} : InitWith(c, c)

\* the noise samples: the mean of np.random.normal(0, 0.0002) and two samples
\* large enough to drive the integral and the power past their limits
NOISE_EXTREME == 1050000000

NoiseSamples == {-NOISE_EXTREME, 0, NOISE_EXTREME}

\* t = i * DT of the driver loop
DriverTime(i) == (i * cfg.DT) \div 500

\* elapsed times a caller passes: the driver's, 5.0 s, 5.0005 s, 20.0 s
TimeSamples == {DriverTime(steps), STABILIZATION_TIME, STABILIZATION_TIME + 1, RAMP_TIME}

\* one call sim.step(t) by the caller that holds the first result
Call(t, noise) ==
  /\ loc.finite
  /\ \E o \in {StepFn(cfg, sim, heap[sim.pos], t, noise)} :
       /\ sim' = o.sim
       /\ heap' = [heap EXCEPT ![sim.pos] = o.pos]
       /\ res' = o.res
       /\ loc' = o.loc
       /\ caller' = [ first |-> IF steps = 0 THEN o.res ELSE caller.first,
                      first_pos |-> IF steps = 0 THEN o.pos ELSE caller.first_pos,
                      breaks_seen |-> caller.breaks_seen
                                        + (IF o.res.broken THEN 1 ELSE 0),
                      schedule |-> caller.schedule ]
       /\ hist' = [ peak |-> Max(hist.peak, o.loc.cnt_length),
                    calm |-> IF o.res.broken THEN 0 ELSE hist.calm + 1,
                    gap |-> hist.calm ]
  /\ steps' = steps + 1
  /\ UNCHANGED cfg

Advance(t, noise) == Call(t, noise) /\ UNCHANGED twin

\* the same call made on a second engine built from another configuration
AdvanceBoth(t, noise) ==
  /\ Call(t, noise)
  /\ \E o \in {StepFn(twin.cfg, twin.sim, twin.pos, t, noise)} :
       twin' = [ cfg |-> twin.cfg, sim |-> o.sim, pos |-> o.pos, res |-> o.res ]

\* an iteration of the driver loop: pos, ... = sim.step(i * DT)
DriverStep ==
  /\ steps < WarmSteps
  /\ Advance(DriverTime(steps), 0)

\* a call of step with any elapsed time and any noise sample
ApiStep ==
  /\ steps >= WarmSteps
  /\ steps < WarmSteps + BurstSteps
  /\ \E t \in TimeSamples, noise \in NoiseSamples : Advance(t, noise)

Next == DriverStep \/ ApiStep

Spec == Init /\ [][Next]_vars

----------------------------------------------------------------------------
(* Two engines in lockstep: one profile, and the other profile with its      *)
(* viscosity, magnet RPM and adhesion limit set to the first one's.          *)

Equalised(c, like) ==
  [ c EXCEPT !.VISCOSITY = like.VISCOSITY, !.RPM_MAGNET = like.RPM_MAGNET,
             !.ADHESION_LIMIT = like.ADHESION_LIMIT ]

InitPair ==
  \E p \in {<<Precision, Robust>>, <<Robust, Precision>>} :
    InitWith(p[1], Equalised(p[2], p[1]))

PairDriverStep ==
  /\ steps < WarmSteps
  /\ AdvanceBoth(DriverTime(steps), 0)

PairApiStep ==
  /\ steps >= WarmSteps
  /\ steps < WarmSteps + BurstSteps
  /\ \E t \in TimeSamples, noise \in NoiseSamples : AdvanceBoth(t, noise)

NextPair == PairDriverStep \/ PairApiStep

SpecPair == InitPair /\ [][NextPair]_vars

----------------------------------------------------------------------------
(* An engine built from a configuration whose particle has no core: with no  *)
(* vapor shell and a seed-length filament both drag terms are zero.          *)

Coreless(c) == [ c EXCEPT !.R_CORE = 0 ]

InitCoreless == \E c \in {Coreless(Precision), Coreless(Robust)} : InitWith(c, c)

CorelessStep ==
  /\ steps < DegenerateSteps
  /\ \E t \in TimeSamples, noise \in NoiseSamples : Advance(t, noise)

NextCoreless == CorelessStep

SpecCoreless == InitCoreless /\ [][NextCoreless]_vars

----------------------------------------------------------------------------
(* Calls made past the stabilization window, by a caller that starts right   *)
(* after construction and by one that takes over from the driver: only the   *)
(* length of the filament stands between such a call and a break.            *)

\* elapsed times past the stabilization window: 5.0005 s and 20.0 s
LateTimes == {STABILIZATION_TIME + 1, RAMP_TIME}

InitRegrow ==
  \E c \in {Precision, Robust}, schedule \in {"driver", "direct"} :
    InitAs(c, c, schedule)

FreshCall ==
  /\ caller.schedule = "direct"
  /\ steps < FreshSteps
  /\ \E t \in LateTimes, noise \in NoiseSamples : Advance(t, noise)

WarmCall ==
  /\ caller.schedule = "driver"
  /\ steps < WarmSteps
  /\ Advance(DriverTime(steps), 0)

RegrowCall ==
  /\ caller.schedule = "driver"
  /\ steps >= WarmSteps
  /\ steps < WarmSteps + RegrowSteps
  /\ \E t \in LateTimes, noise \in {-NOISE_EXTREME, NOISE_EXTREME} :
       Advance(t, noise)

NextRegrow == FreshCall \/ WarmCall \/ RegrowCall

SpecRegrow == InitRegrow /\ [][NextRegrow]_vars

----------------------------------------------------------------------------
(* Properties of step.                                                       *)

Called == steps > 0

\* C1: after every step the heater power lies in [0, 150] and the integral
\* error in [-0.5, 0.5], whatever the elapsed time, the noise sample and the
\* earlier state were.
PidBoundsHold ==
  Called =>
    /\ sim.power_input >= 0 /\ sim.power_input <= POWER_MAX
    /\ sim.pid_err_sum >= -ERR_SUM_LIMIT /\ sim.pid_err_sum <= ERR_SUM_LIMIT
    /\ res.power = sim.power_input

\* a step whose raw integral and raw power both exceeded their upper limits
PidClampsBind ==
  /\ Called
  /\ loc.err_sum_raw > ERR_SUM_LIMIT /\ sim.pid_err_sum = ERR_SUM_LIMIT
  /\ loc.power_raw > POWER_MAX /\ sim.power_input = POWER_MAX

\* C2: a step called with elapsed time at most 5.0 s never reports a break,
\* leaves the break counter as it was and keeps the grown length, however far
\* the tension is above the adhesion limit.
NoBreakWhileStabilizing ==
  (Called /\ loc.t <= STABILIZATION_TIME) =>
    /\ ~res.broken
    /\ sim.break_counter = loc.breaks_before
    /\ sim.cnt_length = loc.cnt_length
    /\ sim.cnt_length > SEED_LENGTH

\* a step at exactly 5.0 s whose tension exceeded the limit without a break
OverLimitAtFiveSeconds ==
  /\ Called
  /\ loc.t = STABILIZATION_TIME
  /\ res.tension > cfg.ADHESION_LIMIT
  /\ ~res.broken

\* C3: after a step without a break the length is the length before the step
\* plus GROWTH_RATE * DT, after a step with a break it is the seed length, and
\* it is never below the seed length.
LengthGrowsOrResets ==
  /\ sim.cnt_length >= SEED_LENGTH
  /\ Called =>
       /\ res.length = sim.cnt_length
       /\ IF res.broken
            THEN sim.cnt_length = SEED_LENGTH
            ELSE /\ sim.cnt_length
                      = loc.length_before + (cfg.GROWTH_RATE * cfg.DT) \div 1000000
                 /\ sim.cnt_length > loc.length_before

\* a break that reset a grown filament to the seed length
GrownFilamentReset ==
  /\ Called
  /\ res.broken
  /\ loc.length_before > SEED_LENGTH
  /\ sim.cnt_length = SEED_LENGTH

\* C4: max_length_record never decreases from one step to the next, a step
\* with a break included.
MaxRecordNeverDecreases ==
  [][sim'.max_length_record >= sim.max_length_record]_vars

\* a step after a break: the record is still above the regrown length
RecordKeptAfterBreak ==
  /\ sim.break_counter > 0
  /\ ~res.broken
  /\ sim.max_length_record > sim.cnt_length
  /\ sim.max_length_record = loc.max_before

\* C5: a step reports a break exactly when its tension exceeds the adhesion
\* limit and its elapsed time is above 5.0 s; a break adds exactly one to the
\* break counter, which therefore equals the number of breaks reported.
BreakExactlyWhenOverLimitAfterWindow ==
  Called =>
    /\ res.broken <=> (res.tension > cfg.ADHESION_LIMIT /\ loc.t > STABILIZATION_TIME)
    /\ sim.break_counter = loc.breaks_before + (IF res.broken THEN 1 ELSE 0)
    /\ sim.break_counter = caller.breaks_seen

\* a reported break, counted once
BreakCounted ==
  /\ Called
  /\ res.broken
  /\ res.tension > cfg.ADHESION_LIMIT
  /\ loc.t > STABILIZATION_TIME
  /\ sim.break_counter = 1
  /\ caller.breaks_seen = 1

\* C6: when the length after growth is at most 10 * R_CNT the filament drag is
\* zero and the returned tension is zero, whatever the drift velocity.
ShortFilamentHasNoTension ==
  (Called /\ loc.cnt_length <= 10 * cfg.R_CNT) =>
    /\ loc.gamma_cnt = 0
    /\ res.tension = 0

\* a short filament on a drifting particle, regrown after a break
ShortFilamentDrifting ==
  /\ Called
  /\ loc.cnt_length <= 10 * cfg.R_CNT
  /\ loc.v_drift_mag > 0
  /\ sim.break_counter > 0
  /\ res.tension = 0

\* C7: after every step the thermal energy and the vapor radius are
\* non-negative.
ThermalStateNonNegative ==
  Called =>
    /\ sim.thermal_energy >= 0
    /\ sim.r_vapor >= 0
    /\ res.r_vapor = sim.r_vapor

\* a heated step that is cooling again: energy and shell present, heater off
ShellCooling ==
  /\ Called
  /\ sim.thermal_energy > 0
  /\ sim.r_vapor > 0
  /\ sim.power_input = 0

\* C8: the result of a step is a snapshot: the position in the result of the
\* first step stays what it was when that step returned.
FirstResultIsSnapshot ==
  Called => heap[caller.first.pos] = caller.first_pos

\* C9: a step whose total drag is not positive raises an explicit error before
\* the division.
ZeroDragFailsFast ==
  (Called /\ loc.gamma_total <= 0) => loc.outcome = "raised"

\* the configuration values the claim of C10 holds equal across the profiles
SharedFields ==
  DOMAIN Precision \ {"VISCOSITY", "RPM_MAGNET", "ADHESION_LIMIT"}

EnginesAgree ==
  /\ twin.sim = sim
  /\ twin.pos = heap[sim.pos]
  /\ twin.res = res

\* C10 as stated: the profiles agree on every configuration value except
\* viscosity, magnet RPM and adhesion limit, TOTAL_TIME included, and engines
\* with those three equalised go through identical states.
ProfilesDifferInThreeOnly ==
  /\ \A f \in SharedFields : Precision[f] = Robust[f]
  /\ EnginesAgree

\* C10: the profiles agree on every configuration value except viscosity,
\* magnet RPM, adhesion limit and TOTAL_TIME, and two engines with the first
\* three equalised, fed the same elapsed times and noise, have identical
\* state and identical results after every step.
ProfilesAgreeApartFromDuration ==
  /\ \A f \in SharedFields \ {"TOTAL_TIME"} : Precision[f] = Robust[f]
  /\ Precision.TOTAL_TIME # Robust.TOTAL_TIME
  /\ twin.cfg.TOTAL_TIME # cfg.TOTAL_TIME
  /\ EnginesAgree

\* both engines reported the same break on the same step
BothEnginesBroke ==
  /\ Called
  /\ res.broken /\ twin.res.broken
  /\ twin.sim.break_counter = 1
  /\ twin.cfg.TOTAL_TIME # cfg.TOTAL_TIME

\* C11: in every state, the one right after construction included,
\* max_length_record is at least the filament length and equals the largest
\* value the filament length has held so far.
RecordIsRunningMaximum ==
  /\ sim.max_length_record >= sim.cnt_length
  /\ sim.max_length_record = hist.peak

\* C12: under either configured profile every step has a strictly positive
\* total drag: the sphere drag is positive because R_CORE > 0 and
\* r_vapor >= 0, and whenever the filament is longer than 10 * R_CNT the
\* slender-body denominator and the filament drag are positive; the division
\* by the total drag is therefore defined and the position stays finite.
DragStrictlyPositive ==
  Called =>
    /\ cfg.R_CORE > 0 /\ sim.r_vapor >= 0
    /\ loc.gamma_sphere > 0
    /\ loc.cnt_length > 10 * cfg.R_CNT =>
         (SlenderDenom(cfg, loc.cnt_length) > 0 /\ loc.gamma_cnt > 0)
    /\ loc.gamma_cnt >= 0
    /\ loc.gamma_total > 0
    /\ loc.gamma_total = loc.gamma_sphere + loc.gamma_cnt
    /\ loc.finite

\* a step on the slender-body branch whose drift, divided out of a positive
\* drag, loaded the filament beyond the adhesion limit
SlenderBranchUnderLoad ==
  /\ Called
  /\ loc.cnt_length > 10 * cfg.R_CNT
  /\ loc.gamma_cnt > 0
  /\ loc.gamma_sphere > 0
  /\ sim.r_vapor > 0
  /\ loc.finite
  /\ res.tension > cfg.ADHESION_LIMIT

\* C13: no break occurs on any of the first 4 steps after construction or on
\* any of the 4 steps that follow a break step, whatever the elapsed time and
\* the noise: the regrown length is still at most 10 * R_CNT and the tension
\* is 0, so two break steps are at least 5 steps apart.
NoBreakWhileRegrowing ==
  Called =>
    /\ hist.gap < 4 =>
         /\ loc.cnt_length <= 10 * cfg.R_CNT
         /\ res.tension = 0
         /\ ~res.broken
    /\ res.broken => hist.gap >= 4

\* the fourth step after a break, made past the stabilization window on a
\* drifting particle: no tension yet
FourthStepAfterBreak ==
  /\ Called
  /\ sim.break_counter = 1
  /\ hist.gap = 3
  /\ loc.t > STABILIZATION_TIME
  /\ loc.v_drift_mag > 0
  /\ res.tension = 0

====
